---- MODULE Spec2Model ----
(***************************************************************************)
(* A model of scripts/fix-spotbugs-issues.py: the SpotBugs report parser,  *)
(* the method-boundary locator, the three per-kind transforms of BugFixer, *)
(* the batch loop fix_all and main.                                        *)
(*                                                                         *)
(* Text is modelled at the level of lexical chunks.  A source line is a    *)
(* record [indent, toks]: its leading whitespace and the chunks that       *)
(* follow it; every test the code makes on a line ('public' in line,       *)
(* line.count('}'), a regular expression) is computed from the chunks.     *)
(* A report is a sequence of the phrases the parser's pattern looks for.   *)
(***************************************************************************)
EXTENDS Integers, Sequences, FiniteSets, TLC

VARIABLES
    entries,               \* how the report text was composed (ghost, never read by the code)
    report,                \* main.html: [exists, content]
    files,                 \* project_root: file name -> [exists, lines]
    files0,                \* the files before the run (ghost)
    findings,              \* SpotBugsReportParser.findings / main's findings
    pc,                    \* main's position
    idx,                   \* fix_all: number of findings already processed
    stats,                 \* fix_all's tally
    fixes_applied,         \* BugFixer.fixes_applied
    manual_review_needed,  \* BugFixer.manual_review_needed
    exit_code,             \* the process exit status
    hist,                  \* one record per completed transform call (ghost)
    loc_lines,             \* _find_method_start called on its own: lines
    loc_idx,               \*   line_idx
    loc_result             \*   [done, value]

vars == <<entries, report, files, files0, findings, pc, idx, stats, fixes_applied,
          manual_review_needed, exit_code, hist, loc_lines, loc_idx, loc_result>>

(***************************************************************************)
(* Bounds.                                                                 *)
(***************************************************************************)
MaxLines == 3

MaxFindings == 2

(***************************************************************************)
(* Source text.  The chunks a line may hold, each standing for one fixed   *)
(* piece of Java text:                                                     *)
(*   decl      public void run()                                           *)
(*   field     private int count;                                          *)
(*   hdr       public java.util.Map<String,String> f()                     *)
(*   record    public record R(java.util.Map<String,String> f)             *)
(*   {  }      one brace                                                   *)
(*   submit    executor.submit(task);                                      *)
(*   suppress  @SuppressWarnings("RV_RETURN_VALUE_IGNORED_BAD_PRACTICE")   *)
(*   ret       return f;                                                   *)
(*   ret2      return  f;      (two blanks)                                *)
(*   wrapped   return java.util.Collections.unmodifiableMap(f);            *)
(*   import    import java.util.List;                                      *)
(*   importC   import java.util.Collections;                               *)
(*   stmt      count++;                                                    *)
(***************************************************************************)
HasKeyword(tok) == tok \in {"decl", "field", "hdr", "record"}

HasLParen(tok) == tok \in {"decl", "hdr", "record", "submit", "suppress", "wrapped"}

HasRParen(tok) == tok \in {"decl", "hdr", "record", "submit", "suppress", "wrapped"}

Line(n, ts) == [indent |-> n, toks |-> ts]

\* line.count(ch) for a brace ch
RECURSIVE CountTok(_, _)
CountTok(ts, ch) ==
    IF ts = <<>> THEN 0
    ELSE (IF Head(ts) = ch THEN 1 ELSE 0) + CountTok(Tail(ts), ch)

\* 'public' in line or 'private' in line or 'protected' in line
LineHasKeyword(line) == \E k \in 1..Len(line.toks) : HasKeyword(line.toks[k])

\* '(' in line
LineHasLParen(line) == \E k \in 1..Len(line.toks) : HasLParen(line.toks[k])

\* ')' in line
LineHasRParen(line) == \E k \in 1..Len(line.toks) : HasRParen(line.toks[k])

LineContains(line, tok) == \E k \in 1..Len(line.toks) : line.toks[k] = tok

\* The suppression line the fix writes, f"{indent}@SuppressWarnings(...)\n"
SuppressLine(indent) == Line(indent, <<"suppress">>)

\* 'import java.util.Collections;\n'
CollectionsImportLine == Line(0, <<"importC">>)

(***************************************************************************)
(* Python's indexing of a list: 0-based, a negative index counts from the  *)
(* end, and an index outside the list raises IndexError.                   *)
(***************************************************************************)
PyInRange(lines, k) == -Len(lines) <= k /\ k < Len(lines)

PyAt(lines, k) == IF k >= 0 THEN lines[k + 1] ELSE lines[Len(lines) + k + 1]

\* list.insert(k, x) for 0 <= k <= len(list)
PyInsert(lines, k, x) == SubSeq(lines, 1, k) \o <<x>> \o SubSeq(lines, k + 1, Len(lines))

(***************************************************************************)
(* BugFixer._find_method_start and BugFixer._get_indent.                   *)
(***************************************************************************)
\* brace_count after the line is counted
CountBraces(brace_count, line) ==
    brace_count + CountTok(line.toks, "}") - CountTok(line.toks, "{")

AcceptsStrict(line, brace_count) ==
    /\ LineHasKeyword(line)
    /\ LineHasLParen(line) /\ LineHasRParen(line)
    /\ brace_count < 0

\* the two tests a line passes to be returned as the declaration line
Accepts(line, brace_count) ==
    /\ LineHasKeyword(line)
    /\ LineHasLParen(line) /\ LineHasRParen(line)
    /\ brace_count <= 0

\* the loop "for i in range(line_idx, -1, -1)", entered at i with brace_count
RECURSIVE FindLoop(_, _, _)
FindLoop(lines, i, brace_count) ==
    IF i < 0 THEN -1
    ELSE LET count == CountBraces(brace_count, lines[i + 1])
         IN  IF Accepts(lines[i + 1], count) THEN i
             ELSE FindLoop(lines, i - 1, count)

_find_method_start(lines, line_idx) == FindLoop(lines, line_idx, 0)

GetIndentZero(line) == 0

_get_indent(line) == line.indent

(***************************************************************************)
(* The fixer's state and what a transform hands back: the return value,    *)
(* whether it raised, and the files and the two logs after the call.       *)
(***************************************************************************)
Exists(fs, path) == path \in DOMAIN fs /\ fs[path].exists

Fixer(fs, fixes, manual) ==
    [files |-> fs, fixes_applied |-> fixes, manual_review_needed |-> manual]

Outcome(b, ret, raised) ==
    [ret |-> ret, raised |-> raised, files |-> b.files,
     fixes_applied |-> b.fixes_applied,
     manual_review_needed |-> b.manual_review_needed]

WriteFile(fs, path, lines) == [fs EXCEPT ![path] = [exists |-> TRUE, lines |-> lines]]

(***************************************************************************)
(* BugFixer.fix_rv_return_value_ignored                                    *)
(***************************************************************************)
HasSuppress(lines, method_start, line_idx) ==
    \E i \in method_start..line_idx : LineContains(lines[i + 1], "suppress")

fix_rv_return_value_ignored(b, finding) ==
    IF ~Exists(b.files, finding.file_path) THEN Outcome(b, FALSE, FALSE)
    ELSE
    LET lines == b.files[finding.file_path].lines
        line_idx == finding.line_number - 1
    IN  IF line_idx >= Len(lines) THEN Outcome(b, FALSE, FALSE)
        ELSE IF ~PyInRange(lines, line_idx) THEN Outcome(b, FALSE, TRUE)
        ELSE IF ~LineContains(PyAt(lines, line_idx), "submit") THEN Outcome(b, FALSE, FALSE)
        ELSE
        LET method_start == _find_method_start(lines, line_idx)
        IN  IF method_start < 0 THEN Outcome(b, FALSE, FALSE)
            ELSE IF HasSuppress(lines, method_start, line_idx) THEN Outcome(b, FALSE, FALSE)
            ELSE
            LET indent == _get_indent(lines[method_start + 1])
                new_lines == PyInsert(lines, method_start, SuppressLine(indent))
            IN  [ret |-> TRUE, raised |-> FALSE,
                 files |-> WriteFile(b.files, finding.file_path, new_lines),
                 fixes_applied |-> Append(b.fixes_applied,
                                          <<"Added @SuppressWarnings for", finding.description>>),
                 manual_review_needed |-> b.manual_review_needed]

(***************************************************************************)
(* BugFixer.fix_ei_expose_rep.  The file is read as one string; here the   *)
(* string is the chunks of all lines in order.                             *)
(***************************************************************************)
RECURSIVE Flat(_)
Flat(lines) == IF lines = <<>> THEN <<>> ELSE Head(lines).toks \o Flat(Tail(lines))

\* finding.method_name.replace('()', '')
FieldName(method_name) ==
    CASE method_name = "f()" -> "f"
      [] method_name = "g()" -> "g"
      [] OTHER -> method_name

\* re.search of  public\s+java\.util\.Map<[^>]+>\s+f\(\)\s*\{[^}]*return\s+f;[^}]*\}
\* "hdr" and the two return chunks are those of field f
AccessorMatches(content, field_name) ==
    /\ field_name = "f"
    /\ \E p \in 1..Len(content) : \E q \in 1..Len(content) : \E r \in 1..Len(content) :
          /\ p + 1 < q /\ q < r
          /\ content[p] = "hdr" /\ content[p + 1] = "{"
          /\ content[q] \in {"ret", "ret2"}
          /\ \A n \in (p + 2)..(q - 1) : content[n] # "}"
          /\ content[r] = "}"

\* str.replace("return f;", "return java.util.Collections.unmodifiableMap(f);")
RECURSIVE ReplaceToks(_)
ReplaceToks(ts) ==
    IF ts = <<>> THEN <<>>
    ELSE <<IF Head(ts) = "ret" THEN "wrapped" ELSE Head(ts)>> \o ReplaceToks(Tail(ts))

RECURSIVE ReplaceReturn(_)
ReplaceReturn(lines) ==
    IF lines = <<>> THEN <<>>
    ELSE <<Line(Head(lines).indent, ReplaceToks(Head(lines).toks))>>
         \o ReplaceReturn(Tail(lines))

\* the lines  import\s+[^;]+;\n  matches: an import statement that ends its line
ImportLines(lines) ==
    {n \in 1..Len(lines) :
        /\ lines[n].toks # <<>>
        /\ lines[n].toks[Len(lines[n].toks)] \in {"import", "importC"}}

SetMax(S) == CHOOSE x \in S : \A y \in S : y <= x

SetMin(S) == CHOOSE x \in S : \A y \in S : x <= y

\* "Add import if needed"
AddImport(lines) ==
    IF \E n \in 1..Len(lines) : LineContains(lines[n], "importC") THEN lines
    ELSE IF ImportLines(lines) = {} THEN lines
    ELSE PyInsert(lines, SetMax(ImportLines(lines)), CollectionsImportLine)

fix_ei_expose_rep(b, finding) ==
    IF ~Exists(b.files, finding.file_path) THEN Outcome(b, FALSE, FALSE)
    ELSE
    LET lines == b.files[finding.file_path].lines
    IN  IF ~(\E n \in 1..Len(lines) : LineContains(lines[n], "record"))
        THEN Outcome(b, FALSE, FALSE)
        ELSE IF ~AccessorMatches(Flat(lines), FieldName(finding.method_name))
        THEN Outcome(b, FALSE, FALSE)
        ELSE [ret |-> TRUE, raised |-> FALSE,
              files |-> WriteFile(b.files, finding.file_path, AddImport(ReplaceReturn(lines))),
              fixes_applied |-> Append(b.fixes_applied,
                                       <<"Fixed EI_EXPOSE_REP for", finding.description>>),
              manual_review_needed |-> b.manual_review_needed]

(***************************************************************************)
(* BugFixer.fix_ei_expose_rep2                                             *)
(***************************************************************************)
ManualReview(b, finding) ==
    [ret |-> FALSE, raised |-> FALSE, files |-> b.files,
     fixes_applied |-> b.fixes_applied,
     manual_review_needed |-> Append(b.manual_review_needed,
         <<finding.description, "Record constructor needs defensive copy">>)]

Rep2NoExistsCheck(b, finding) == ManualReview(b, finding)

Rep2ReportsFixed(b, finding) ==
    IF ~Exists(b.files, finding.file_path) THEN Outcome(b, FALSE, FALSE)
    ELSE [ManualReview(b, finding) EXCEPT !.ret = TRUE]

fix_ei_expose_rep2(b, finding) ==
    IF ~Exists(b.files, finding.file_path) THEN Outcome(b, FALSE, FALSE)
    ELSE ManualReview(b, finding)

(***************************************************************************)
(* BugFixer.fix_all: the body of its loop for one finding.                 *)
(***************************************************************************)
RV == "RV_RETURN_VALUE_IGNORED_BAD_PRACTICE"

REP == "EI_EXPOSE_REP"

REP2 == "EI_EXPOSE_REP2"

Registered == {RV, REP, REP2}

\* the if/elif chain that picks the transform; fixed stays False otherwise
Dispatch(b, finding) ==
    CASE finding.bug_type = RV -> fix_rv_return_value_ignored(b, finding)
      [] finding.bug_type = REP -> fix_ei_expose_rep(b, finding)
      [] finding.bug_type = REP2 -> fix_ei_expose_rep2(b, finding)
      [] OTHER -> Outcome(b, FALSE, FALSE)

ZeroStats == [fixed |-> 0, manual_review |-> 0, skipped |-> 0]

TallyManualForRep(st, finding, fixed) ==
    IF fixed THEN [st EXCEPT !.fixed = @ + 1]
    ELSE IF finding.bug_type \in {REP, REP2} THEN [st EXCEPT !.manual_review = @ + 1]
    ELSE [st EXCEPT !.skipped = @ + 1]

Tally(st, finding, fixed) ==
    IF fixed THEN [st EXCEPT !.fixed = @ + 1]
    ELSE IF finding.bug_type \in {REP2} THEN [st EXCEPT !.manual_review = @ + 1]
    ELSE [st EXCEPT !.skipped = @ + 1]

\* fix_all as a function: the run from a fixer and a tally over the findings left
RECURSIVE FixAllFrom(_, _, _)
FixAllFrom(b, st, todo) ==
    IF todo = <<>> THEN [raised |-> FALSE, stats |-> st, fixer |-> b]
    ELSE LET o == Dispatch(b, Head(todo))
         IN  IF o.raised THEN [raised |-> TRUE, stats |-> st, fixer |-> b]
             ELSE FixAllFrom(Fixer(o.files, o.fixes_applied, o.manual_review_needed),
                             Tally(st, Head(todo), o.ret), Tail(todo))

(***************************************************************************)
(* SpotBugsReportParser.parse.  The report is a sequence of phrases:       *)
(*   bug   "Bug type <v>"          cls  "In class <v>"                     *)
(*   mth   "In method <v>"         at   "At <v>" and, with hasLine,        *)
(*                                      ":[line <ln>]" right after it      *)
(* with arbitrary markup (no colon in it) between them.                    *)
(***************************************************************************)
Phrase(t, v, hasLine, ln) == [t |-> t, v |-> v, hasLine |-> hasLine, ln |-> ln]

Bug(k) == Phrase("bug", k, FALSE, 0)

Cls(c) == Phrase("cls", c, FALSE, 0)

Mth(m) == Phrase("mth", m, FALSE, 0)

At(f, n) == Phrase("at", f, TRUE, n)

AtNoLine(f) == Phrase("at", f, FALSE, 0)

\* the text of a phrase, as words
Words(ph) ==
    CASE ph.t = "bug" -> <<"Bug type", ph.v>>
      [] ph.t = "cls" -> <<"In class", ph.v>>
      [] ph.t = "mth" -> <<"In method", ph.v>>
      [] OTHER -> <<"At", ph.v>>

RECURSIVE WordsOf(_)
WordsOf(phs) == IF phs = <<>> THEN <<>> ELSE Words(Head(phs)) \o WordsOf(Tail(phs))

\* the first phrase of kind t after position p (0: none)
FirstAfter(content, p, t) ==
    LET S == {n \in (p + 1)..Len(content) : content[n].t = t}
    IN  IF S = {} THEN 0 ELSE SetMin(S)

\* the first "At <v>" after p that is followed at once by ":[line <n>]"
FirstLineAfter(content, p) ==
    LET S == {n \in (p + 1)..Len(content) : content[n].t = "at" /\ content[n].hasLine}
    IN  IF S = {} THEN 0 ELSE SetMin(S)

\* group 4, ([^:]+\.java): from the name after the first "At " to the ".java" before
\* the first ":[line"
CapturedPath(content, a, b) ==
    IF a = b THEN <<content[a].v>>
    ELSE <<content[a].v>> \o WordsOf(SubSeq(content, a + 1, b))

MakeFinding(k, c, m, path, n) ==
    [bug_type |-> k, class_name |-> c, method_name |-> m, file_path |-> path,
     line_number |-> n, description |-> <<k, "in", c, m>>]

\* re.finditer: the matches from position p on, left to right, not overlapping
RECURSIVE Matches(_, _)
Matches(content, p) ==
    LET i == FirstAfter(content, p, "bug")
        j == IF i = 0 THEN 0 ELSE FirstAfter(content, i, "cls")
        k == IF j = 0 THEN 0 ELSE FirstAfter(content, j, "mth")
        a == IF k = 0 THEN 0 ELSE FirstAfter(content, k, "at")
        e == IF a = 0 THEN 0 ELSE FirstLineAfter(content, a - 1)
    IN  IF e = 0 THEN <<>>
        ELSE <<MakeFinding(content[i].v, content[j].v, content[k].v,
                           CapturedPath(content, a, e), content[e].ln)>>
             \o Matches(content, e)

parse(rep) == IF ~rep.exists THEN <<>> ELSE Matches(rep.content, 0)

(***************************************************************************)
(* main and the steps of fix_all.                                          *)
(***************************************************************************)
Parse ==
    /\ pc = "start"
    /\ findings' = parse(report)
    /\ pc' = "parsed"
    /\ UNCHANGED <<entries, report, files, files0, idx, stats, fixes_applied,
                   manual_review_needed, exit_code, hist, loc_lines, loc_idx, loc_result>>

\* "if not findings: ... return 0"
MainNoFindings ==
    /\ pc = "parsed"
    /\ findings = <<>>
    /\ exit_code' = 0
    /\ pc' = "exited"
    /\ UNCHANGED <<entries, report, files, files0, findings, idx, stats, fixes_applied,
                   manual_review_needed, hist, loc_lines, loc_idx, loc_result>>

\* fixer = BugFixer(project_root); fixer.fix_all(findings) is entered
BeginFixAll ==
    /\ pc = "parsed"
    /\ findings # <<>>
    /\ fixes_applied' = <<>>
    /\ manual_review_needed' = <<>>
    /\ stats' = ZeroStats
    /\ idx' = 0
    /\ pc' = "fix_all"
    /\ UNCHANGED <<entries, report, files, files0, findings, exit_code, hist,
                   loc_lines, loc_idx, loc_result>>

\* one pass of "for finding in findings"; an exception leaves main, and the
\* interpreter ends the process with status 1
FixAllStep ==
    /\ pc = "fix_all"
    /\ idx < Len(findings)
    /\ LET finding == findings[idx + 1]
           b == Fixer(files, fixes_applied, manual_review_needed)
           o == Dispatch(b, finding)
           call == [finding |-> finding, ret |-> o.ret, raised |-> o.raised, pre |-> b,
                    post |-> Fixer(o.files, o.fixes_applied, o.manual_review_needed)]
       IN  IF o.raised
           THEN /\ pc' = "exited"
                /\ exit_code' = 1
                /\ hist' = Append(hist, call @@ [tally |-> stats])
                /\ UNCHANGED <<files, fixes_applied, manual_review_needed, stats, idx>>
           ELSE /\ files' = o.files
                /\ fixes_applied' = o.fixes_applied
                /\ manual_review_needed' = o.manual_review_needed
                /\ stats' = Tally(stats, finding, o.ret)
                /\ idx' = idx + 1
                /\ hist' = Append(hist, call @@ [tally |-> stats'])
                /\ UNCHANGED <<pc, exit_code>>
    /\ UNCHANGED <<entries, report, files0, findings, loc_lines, loc_idx, loc_result>>

\* return 0 if stats['fixed'] > 0 or stats['manual_review'] == 0 else 1
ExitCode(st) == IF st.fixed > 0 \/ st.manual_review = 0 THEN 0 ELSE 1

\* fix_all returns, the summary is printed, main returns
MainReturn ==
    /\ pc = "fix_all"
    /\ idx = Len(findings)
    /\ exit_code' = ExitCode(stats)
    /\ pc' = "exited"
    /\ UNCHANGED <<entries, report, files, files0, findings, idx, stats, fixes_applied,
                   manual_review_needed, hist, loc_lines, loc_idx, loc_result>>

\* _find_method_start called on its own
Locate ==
    /\ pc = "locate"
    /\ ~loc_result.done
    /\ loc_result' = [done |-> TRUE, value |-> _find_method_start(loc_lines, loc_idx)]
    /\ UNCHANGED <<entries, report, files, files0, findings, pc, idx, stats, fixes_applied,
                   manual_review_needed, exit_code, hist, loc_lines, loc_idx>>

Next == Parse \/ MainNoFindings \/ BeginFixAll \/ FixAllStep \/ MainReturn

NextParse == Parse

NextLocate == Locate

(***************************************************************************)
(* Inputs.                                                                 *)
(***************************************************************************)
SeqsUpTo(S, n) == UNION {[1..m -> S] : m \in 0..n}

RECURSIVE Concat(_)
Concat(ss) == IF ss = <<>> THEN <<>> ELSE Head(ss) \o Concat(Tail(ss))

\* a well-formed report entry for the file of path f (one name, no colon in it)
Entry(k, c, m, f, n) == <<Bug(k), Cls(c), Mth(m), At(f[1], n)>>

Report(es) == [exists |-> TRUE, content |-> Concat(es)]

NoReport == [exists |-> FALSE, content |-> <<>>]

Absent == [exists |-> FALSE, lines |-> <<>>]

File(lines) == [exists |-> TRUE, lines |-> lines]

FileA == <<"A.java">>

FileB == <<"B.java">>

OtherKind == "NP_NULL_ON_SOME_PATH"

\* "  public void run() {", "    executor.submit(task);"
RunMethod == <<Line(1, <<"decl", "{">>), Line(2, <<"submit">>)>>

\* a record with an import and the accessor of f in one line
RecordFile ==
    <<Line(0, <<"import">>), Line(0, <<"record", "{">>),
      Line(1, <<"hdr", "{", "ret", "}">>), Line(0, <<"}">>)>>

NoCalls ==
    /\ loc_lines = <<>>
    /\ loc_idx = 0
    /\ loc_result = [done |-> FALSE, value |-> -1]

Fresh ==
    /\ files0 = files
    /\ findings = <<>>
    /\ idx = 0
    /\ stats = ZeroStats
    /\ fixes_applied = <<>>
    /\ manual_review_needed = <<>>
    /\ exit_code = -1
    /\ hist = <<>>

\* main on reports of every kind of finding, over a few files
MainEntries ==
    {Entry(k, "Worker", "f()", f, n) :
        k \in {RV, REP, REP2, OtherKind}, f \in {FileA, FileB}, n \in {0, 2}}

Init ==
    /\ entries \in SeqsUpTo(MainEntries, MaxFindings)
    /\ \/ report = Report(entries)
       \/ entries = <<>> /\ report = NoReport
    /\ \E a \in {Absent, File(<<>>), File(RunMethod), File(RecordFile)} :
       \E b \in {Absent, File(RecordFile)} :
          files = (FileA :> a) @@ (FileB :> b)
    /\ pc = "start"
    /\ Fresh
    /\ NoCalls

Spec == Init /\ [][Next]_vars

\* main on ignored-return-value findings against every short file
RVLines ==
    {Line(1, <<"decl", "{">>), Line(1, <<"decl">>), Line(1, <<"}">>),
     Line(2, <<"submit">>), Line(1, <<"suppress">>)}

InitRV ==
    /\ entries \in SeqsUpTo({Entry(RV, "Worker", "run()", FileA, n) : n \in 0..MaxLines},
                            MaxFindings)
    /\ report = Report(entries)
    /\ \E a \in SeqsUpTo(RVLines, MaxLines) : files = (FileA :> File(a))
    /\ pc = "start"
    /\ Fresh
    /\ NoCalls

SpecRV == InitRV /\ [][Next]_vars

\* main on exposed-field findings against every short record file
RepLines ==
    {Line(0, <<"import">>), Line(0, <<"importC">>), Line(0, <<"record", "{">>),
     Line(1, <<"hdr", "{", "ret", "}">>), Line(1, <<"hdr", "{", "ret2", "}">>),
     Line(1, <<"hdr", "{">>), Line(2, <<"ret">>), Line(0, <<"}">>)}

InitRep ==
    /\ entries \in SeqsUpTo({Entry(REP, "R", m, FileA, 1) : m \in {"f()", "g()"}},
                            MaxFindings)
    /\ report = Report(entries)
    /\ \E a \in SeqsUpTo(RepLines, MaxLines) : files = (FileA :> File(a))
    /\ pc = "start"
    /\ Fresh
    /\ NoCalls

SpecRep == InitRep /\ [][Next]_vars

\* the parser on reports of well-formed and malformed entries
WellFormed == {Entry(RV, "Worker", "run()", FileA, 1), Entry(REP2, "R", "f()", FileB, 2)}

\* e without its k-th phrase
Without(e, k) == SubSeq(e, 1, k - 1) \o SubSeq(e, k + 1, Len(e))

\* e with its ":[line n]" missing
WithoutLine(e) == [e EXCEPT ![4] = AtNoLine(e[4].v)]

Malformed ==
    {Without(e, k) : e \in WellFormed, k \in 1..4} \cup {WithoutLine(e) : e \in WellFormed}

InitParse ==
    /\ entries \in SeqsUpTo(WellFormed \cup Malformed, MaxFindings)
    /\ \/ report = Report(entries)
       \/ entries = <<>> /\ report = NoReport
    /\ files = (FileA :> Absent)
    /\ pc = "start"
    /\ Fresh
    /\ NoCalls

SpecParse == InitParse /\ [][NextParse]_vars

\* the locator on every short line sequence and every index in it
LocLines ==
    {Line(1, <<"decl", "{">>), Line(1, <<"decl">>), Line(1, <<"field">>), Line(0, <<"{">>),
     Line(1, <<"}">>), Line(2, <<"submit">>), Line(0, <<"decl", "{", "submit", "}">>),
     Line(1, <<"}", "decl", "{">>)}

InitLocate ==
    /\ loc_lines \in SeqsUpTo(LocLines, MaxLines)
    /\ loc_idx \in 0..(Len(loc_lines) - 1)
    /\ loc_result = [done |-> FALSE, value |-> -1]
    /\ entries = <<>>
    /\ report = NoReport
    /\ files = (FileA :> Absent)
    /\ pc = "locate"
    /\ Fresh

SpecLocate == InitLocate /\ [][NextLocate]_vars

(***************************************************************************)
(* The method-boundary locator (C10).                                      *)
(***************************************************************************)
\* closing braces minus opening braces over the lines i..t (0-based, inclusive)
RECURSIVE Balance(_, _, _)
Balance(lines, i, t) ==
    IF i > t THEN 0
    ELSE CountTok(lines[i + 1].toks, "}") - CountTok(lines[i + 1].toks, "{")
         + Balance(lines, i + 1, t)

Candidates(lines, t) ==
    {i \in 0..t :
        /\ LineHasKeyword(lines[i + 1])
        /\ LineHasLParen(lines[i + 1]) /\ LineHasRParen(lines[i + 1])
        /\ Balance(lines, i, t) <= 0}

\* C10: for every line sequence and index t in it, _find_method_start returns the
\* greatest i <= t whose line holds a visibility keyword and both parentheses and
\* whose brace balance over i..t is at most zero, or -1 when there is none; the
\* result lies in -1..t, and the arguments are as they were.
C10_GreatestCandidate ==
    loc_result.done =>
        /\ loc_result.value =
              IF Candidates(loc_lines, loc_idx) = {} THEN -1
              ELSE SetMax(Candidates(loc_lines, loc_idx))
        /\ loc_result.value \in -1..loc_idx

\* a declaration line nearer the target was passed over for its balance
C10_Witness ==
    /\ loc_result.done
    /\ loc_result.value >= 0
    /\ \E i \in (loc_result.value + 1)..loc_idx :
          /\ LineHasKeyword(loc_lines[i + 1])
          /\ LineHasLParen(loc_lines[i + 1])
          /\ Balance(loc_lines, i, loc_idx) > 0

(***************************************************************************)
(* The ignored-return-value fix (C9, C2) and the order of processing (C3). *)
(***************************************************************************)
Calls(kind) == {k \in 1..Len(hist) : hist[k].finding.bug_type = kind /\ ~hist[k].raised}

LinesBefore(h) == h.pre.files[h.finding.file_path].lines

LinesAfter(h) == h.post.files[h.finding.file_path].lines

\* the call changed no file and neither log
Untouched(h) == h.post = h.pre

\* C9, success: the file after is the file before with one suppression line, indented
\* like the declaration line the locator returned, put right before that line; one
\* entry more in the applied-fixes log, the manual-review log as it was.
C9_Inserted(h) ==
    LET before == LinesBefore(h)
        after == LinesAfter(h)
        m == _find_method_start(before, h.finding.line_number - 1)
    IN  /\ m >= 0
        /\ Len(after) = Len(before) + 1
        /\ SubSeq(after, 1, m) = SubSeq(before, 1, m)
        /\ after[m + 1] = Line(before[m + 1].indent, <<"suppress">>)
        /\ SubSeq(after, m + 2, Len(after)) = SubSeq(before, m + 1, Len(before))
        /\ \A f \in DOMAIN h.pre.files :
              f # h.finding.file_path => h.post.files[f] = h.pre.files[f]
        /\ Len(h.post.fixes_applied) = Len(h.pre.fixes_applied) + 1
        /\ SubSeq(h.post.fixes_applied, 1, Len(h.pre.fixes_applied)) = h.pre.fixes_applied
        /\ h.post.manual_review_needed = h.pre.manual_review_needed

\* C9, the cases named as not succeeding
C9_MustFail(h) ==
    LET before == LinesBefore(h)
        t == h.finding.line_number - 1
    IN  \/ t >= Len(before)
        \/ /\ t \in 0..(Len(before) - 1)
           /\ \/ ~LineContains(before[t + 1], "submit")
              \/ _find_method_start(before, t) < 0
              \/ \E i \in _find_method_start(before, t)..t :
                    LineContains(before[i + 1], "suppress")

\* C9: a successful fix_rv_return_value_ignored inserts exactly one suppression line
\* before the declaration line, with that line's indentation, keeps every other line
\* in order and logs one applied fix; an unsuccessful one leaves file and logs alone.
C9_InsertOneLine ==
    \A k \in Calls(RV) :
        /\ hist[k].ret => C9_Inserted(hist[k])
        /\ ~hist[k].ret => Untouched(hist[k])
        /\ C9_MustFail(hist[k]) => ~hist[k].ret

\* a fix that inserted an indented line below the top of the file
C9_Witness ==
    \E k \in Calls(RV) :
        /\ hist[k].ret
        /\ _find_method_start(LinesBefore(hist[k]), hist[k].finding.line_number - 1) > 0
        /\ LinesAfter(hist[k])[_find_method_start(LinesBefore(hist[k]),
                                  hist[k].finding.line_number - 1) + 1].indent > 0

\* C2: once fix_rv_return_value_ignored has succeeded for a finding, the next call with
\* the same finding returns not-fixed and leaves the file as it is.
C2_SecondCallIsNoOp ==
    \A k \in Calls(RV) :
        (/\ k + 1 \in Calls(RV)
         /\ hist[k + 1].finding = hist[k].finding
         /\ hist[k].ret)
        => (~hist[k + 1].ret /\ hist[k + 1].post.files = hist[k + 1].pre.files)

Perms(n) == {p \in [1..n -> 1..n] : \A a \in 1..n : \A b \in 1..n : a # b => p[a] # p[b]}

Permuted(s, p) == [k \in 1..Len(s) |-> s[p[k]]]

\* C3: fix_all over any permutation of the findings, from the same files, returns the
\* tally this run returned.
C3_OrderIndependent ==
    (pc = "exited" /\ idx = Len(findings)) =>
        \A p \in Perms(Len(findings)) :
            LET other == FixAllFrom(Fixer(files0, <<>>, <<>>), ZeroStats,
                                    Permuted(findings, p))
            IN  ~other.raised => other.stats = stats

(***************************************************************************)
(* The exposed-field fix called twice (C7).                                *)
(***************************************************************************)
RECURSIVE CountLines(_, _)
CountLines(lines, tok) ==
    IF lines = <<>> THEN 0
    ELSE CountTok(Head(lines).toks, tok) + CountLines(Tail(lines), tok)

\* a record file whose accessor of f has the body "return f;", written with one blank
\* everywhere, and that imports Collections at most once
C7_RecordWithBareAccessor(lines) ==
    /\ \E n \in 1..Len(lines) : LineContains(lines[n], "record")
    /\ \E p \in 1..(Len(Flat(lines)) - 3) :
          SubSeq(Flat(lines), p, p + 3) = <<"hdr", "{", "ret", "}">>
    /\ CountLines(lines, "ret2") = 0
    /\ CountLines(lines, "wrapped") = 0
    /\ CountLines(lines, "importC") <= 1

\* C7: on a record file whose accessor body is "return f;", two calls of
\* fix_ei_expose_rep in a row with the same finding: the first returns fixed, the
\* second returns not-fixed and changes nothing, every bare return is wrapped once and
\* the file holds exactly one "import java.util.Collections;" line.
C7_WrapAndImportOnce ==
    \A k \in Calls(REP) :
        (/\ k + 1 \in Calls(REP)
         /\ hist[k + 1].finding = hist[k].finding
         /\ FieldName(hist[k].finding.method_name) = "f"
         /\ C7_RecordWithBareAccessor(LinesBefore(hist[k])))
        => /\ hist[k].ret
           /\ ~hist[k + 1].ret
           /\ Untouched(hist[k + 1])
           /\ CountLines(LinesAfter(hist[k + 1]), "ret") = 0
           /\ CountLines(LinesAfter(hist[k + 1]), "wrapped")
                 = CountLines(LinesBefore(hist[k]), "ret")
           /\ CountLines(LinesAfter(hist[k + 1]), "importC") = 1

(***************************************************************************)
(* The constructor-exposure kind (C1) and absent files (C6).               *)
(***************************************************************************)
\* C1 as claimed: every call of fix_ei_expose_rep2, whether or not the file exists,
\* appends exactly one entry to manual_review_needed and returns not-fixed.
C1_AlwaysLogged ==
    \A k \in Calls(REP2) :
        /\ ~hist[k].ret
        /\ Len(hist[k].post.manual_review_needed)
              = Len(hist[k].pre.manual_review_needed) + 1

\* C1 as amended: fix_ei_expose_rep2 never returns fixed and never changes a file or
\* the applied-fixes log; when the target file exists it appends exactly one entry,
\* the finding's advisory, to manual_review_needed, and when the file is absent it
\* appends nothing.
C1_LoggedWhenFileExists ==
    \A k \in 1..Len(hist) :
        hist[k].finding.bug_type = REP2 =>
            /\ ~hist[k].ret /\ ~hist[k].raised
            /\ hist[k].post.files = hist[k].pre.files
            /\ hist[k].post.fixes_applied = hist[k].pre.fixes_applied
            /\ hist[k].tally.fixed = IF k = 1 THEN 0 ELSE hist[k - 1].tally.fixed
            /\ Exists(hist[k].pre.files, hist[k].finding.file_path) =>
                  hist[k].post.manual_review_needed
                     = Append(hist[k].pre.manual_review_needed,
                              <<hist[k].finding.description,
                                "Record constructor needs defensive copy">>)
            /\ ~Exists(hist[k].pre.files, hist[k].finding.file_path) =>
                  hist[k].post.manual_review_needed = hist[k].pre.manual_review_needed

\* one finding of the kind on a file that exists, one on a file that does not
C1_Witness ==
    /\ \E k \in Calls(REP2) :
          /\ Exists(hist[k].pre.files, hist[k].finding.file_path)
          /\ Len(hist[k].post.manual_review_needed) = 1
    /\ \E k \in Calls(REP2) : ~Exists(hist[k].pre.files, hist[k].finding.file_path)

\* C6: a call of one of the three transforms for a file that does not exist returns
\* not-fixed without raising, leaves every file absent or as it was and both logs as
\* they were, and the loop goes on.
C6_AbsentFileIsNoOp ==
    \A k \in 1..Len(hist) :
        (/\ hist[k].finding.bug_type \in Registered
         /\ ~Exists(hist[k].pre.files, hist[k].finding.file_path))
        => /\ ~hist[k].ret /\ ~hist[k].raised
           /\ hist[k].post.files = hist[k].pre.files
           /\ hist[k].post.fixes_applied = hist[k].pre.fixes_applied
           /\ hist[k].post.manual_review_needed = hist[k].pre.manual_review_needed
           /\ (k = Len(hist) => (pc = "fix_all" \/ idx = Len(findings)))

\* two findings of different kinds, both for absent files, processed one after the other
C6_Witness ==
    /\ Len(hist) = 2
    /\ \A k \in 1..2 : /\ hist[k].finding.bug_type \in Registered
                       /\ ~Exists(hist[k].pre.files, hist[k].finding.file_path)
    /\ hist[1].finding.bug_type # hist[2].finding.bug_type
    /\ hist[2].finding.bug_type = REP2

(***************************************************************************)
(* The tally (C5) and the exit code (C8).                                  *)
(***************************************************************************)
TallyBefore(k) == IF k = 1 THEN ZeroStats ELSE hist[k - 1].tally

\* C5: fix_all puts every finding in exactly one bucket: the three counts add up to
\* the number of findings processed (all of them when fix_all returns), manual_review
\* counts the EI_EXPOSE_REP2 findings, fixed counts the transforms that returned
\* success, and a finding of a kind with no transform is counted as skipped and
\* touches no file and no log.
C5_OneBucketEach ==
    pc \in {"fix_all", "exited"} =>
        /\ idx = Cardinality({k \in 1..Len(hist) : ~hist[k].raised})
        /\ stats.fixed + stats.manual_review + stats.skipped = idx
        /\ (pc = "exited" /\ \A k \in 1..Len(hist) : ~hist[k].raised) =>
              stats.fixed + stats.manual_review + stats.skipped = Len(findings)
        /\ stats.manual_review = Cardinality(Calls(REP2))
        /\ stats.fixed = Cardinality({k \in 1..Len(hist) : hist[k].ret})
        /\ stats.fixed = Len(fixes_applied)
        /\ \A k \in 1..Len(hist) :
              hist[k].finding.bug_type \notin Registered =>
                 /\ Untouched(hist[k])
                 /\ hist[k].tally = [TallyBefore(k) EXCEPT !.skipped = @ + 1]

\* a run that ends with a finding of an unknown kind skipped and one sent to review
C5_Witness ==
    /\ pc = "exited"
    /\ Len(hist) = 2
    /\ \E k \in 1..2 : hist[k].finding.bug_type \notin Registered
    /\ stats.manual_review = 1 /\ stats.skipped = 1

\* C8: the process ends with status 0 exactly when a finding was fixed or none needs
\* manual review, and with status 1 otherwise.
C8_ExitCode ==
    pc = "exited" =>
        /\ exit_code \in {0, 1}
        /\ exit_code = 0 <=> (stats.fixed > 0 \/ stats.manual_review = 0)

(***************************************************************************)
(* The parser on a report made of entries (C4).                            *)
(***************************************************************************)
IsWellFormed(e) ==
    /\ Len(e) = 4
    /\ e[1].t = "bug" /\ e[2].t = "cls" /\ e[3].t = "mth"
    /\ e[4].t = "at" /\ e[4].hasLine

RECURSIVE Expected(_)
Expected(es) ==
    IF es = <<>> THEN <<>>
    ELSE (IF IsWellFormed(Head(es))
          THEN <<MakeFinding(Head(es)[1].v, Head(es)[2].v, Head(es)[3].v,
                             <<Head(es)[4].v>>, Head(es)[4].ln)>>
          ELSE <<>>)
         \o Expected(Tail(es))

\* C4: parse yields one Finding per well-formed entry, in document order, with that
\* entry's own tokens, and nothing for an entry that lacks a part.
C4_OnePerWellFormedEntry ==
    (pc = "parsed" /\ report.exists) => findings = Expected(entries)

====
